---- MODULE Spec2Model ----
(***************************************************************************)
(* A model of simple-jsx-parser: html-parser.js (parse, handleJSXTag,      *)
(* parseProps and the module-level pattern kMarkupPattern) and the         *)
(* translator module (translate, stringify, parseText, parseJSX and the    *)
(* module-level patterns JSX_STRING and JSX_INTERPOLATION).                *)
(*                                                                         *)
(* A JavaScript string is the sequence of its characters, each a           *)
(* one-character TLA+ string; indexes named as in the source are 0-based.  *)
(* null and undefined are the one-element tuples JSNull and JSUndefined,   *)
(* which no string equals since their only element is not a character.     *)
(***************************************************************************)
EXTENDS Integers, Sequences, FiniteSets, TLC

(***************************************************************************)
(* Bounds of the model.                                                    *)
(***************************************************************************)
\* The replacements one call of parseJSX may make before the model cuts it off.
MaxRewrites == 4

\* The children written in one element.
MaxChildren == 3

\* The segments (spans and host text between them) of a text given to parseJSX.
MaxSegments == 3

\* The spaces before the slash of the longest self-closing tag.
MaxPad == 28

\* The pieces of a text node's text.
MaxFragments == 4

\* The tags and texts of an input of parse.
MaxTokens == 3

\* The segments of an input of a call made by the long-lived process.
MaxCallSegments == 2

\* The attributes of a tag given to parseProps.
MaxAttrs == 3

JSNull == <<"null">>
JSUndefined == <<"undefined">>

(***************************************************************************)
(* Characters.  Ascii lists the printable characters from code 32.  The     *)
(* backquote cannot stand alone in a TLA+ string and is the atom Backtick.  *)
(***************************************************************************)
Backtick == "backquote"

Ascii ==
  << " ", "!", "\"", "#", "$", "%", "&", "'", "(", ")", "*", "+", ",", "-", ".", "/",
     "0", "1", "2", "3", "4", "5", "6", "7", "8", "9", ":", ";", "<", "=", ">", "?",
     "@", "A", "B", "C", "D", "E", "F", "G", "H", "I", "J", "K", "L", "M", "N", "O",
     "P", "Q", "R", "S", "T", "U", "V", "W", "X", "Y", "Z", "[", "\\", "]", "^", "_",
     Backtick, "a", "b", "c", "d", "e", "f", "g", "h", "i", "j", "k", "l", "m", "n", "o",
     "p", "q", "r", "s", "t", "u", "v", "w", "x", "y", "z", "{", "|", "}", "~" >>

\* c.charCodeAt(0)
CharCode(c) == 31 + (CHOOSE i \in 1..Len(Ascii) : Ascii[i] = c)

CharRange(lo, hi) == { Ascii[i] : i \in (CharCode(lo) - 31)..(CharCode(hi) - 31) }

Lower == CharRange("a", "z")
Upper == CharRange("A", "Z")
Digit == CharRange("0", "9")

\* What \s matches and String.prototype.trim strips (the ASCII members).
WhiteSpace == {" ", "\t", "\n", "\r", "\f"}

(***************************************************************************)
(* String.prototype methods used by the source.                            *)
(***************************************************************************)
Min(a, b) == IF a < b THEN a ELSE b
Max(a, b) == IF a > b THEN a ELSE b

\* The relative index of slice/substring arguments: negative counts from the end.
RelIndex(s, k) == IF k < 0 THEN Max(Len(s) + k, 0) ELSE Min(k, Len(s))

\* s.slice(from, to)
Slice(s, from, to) == SubSeq(s, RelIndex(s, from) + 1, RelIndex(s, to))

\* s.slice(from)
SliceFrom(s, from) == SubSeq(s, RelIndex(s, from) + 1, Len(s))

\* s.substring(from, to): negative arguments count as 0 and the two are swapped if needed.
Substring(s, from, to) ==
  LET a == Min(Max(from, 0), Len(s))
      b == Min(Max(to, 0), Len(s))
  IN SubSeq(s, Min(a, b) + 1, Max(a, b))

\* s.trimStart() and s.trimEnd()
TrimStart(s) ==
  LET kept == {i \in 1..Len(s) : s[i] \notin WhiteSpace}
  IN IF kept = {} THEN <<>>
     ELSE SubSeq(s, CHOOSE i \in kept : \A j \in kept : i <= j, Len(s))

TrimEnd(s) ==
  LET kept == {i \in 1..Len(s) : s[i] \notin WhiteSpace}
  IN IF kept = {} THEN <<>>
     ELSE SubSeq(s, 1, CHOOSE i \in kept : \A j \in kept : i >= j)

\* s.trim()
Trim(s) == TrimEnd(TrimStart(s))

\* Does t occur in s at 0-based position i?
OccursAt(s, t, i) == i + Len(t) <= Len(s) /\ SubSeq(s, i + 1, i + Len(t)) = t

\* s.indexOf(t): the first position of t in s, or -1.
IndexOf(s, t) ==
  IF \E i \in 0..Len(s) : OccursAt(s, t, i)
  THEN CHOOSE i \in 0..Len(s) : OccursAt(s, t, i) /\ \A j \in 0..(i - 1) : ~OccursAt(s, t, j)
  ELSE -1

\* String(v) for a string or null or undefined.
JSString(v) ==
  IF v = JSNull THEN <<"n", "u", "l", "l">>
  ELSE IF v = JSUndefined THEN <<"u", "n", "d", "e", "f", "i", "n", "e", "d">>
  ELSE v

\* s.includes(v): the argument is converted to a string first.
Includes(s, v) == IndexOf(s, JSString(v)) # -1

StartsWith(s, t) == OccursAt(s, t, 0)
EndsWith(s, t) == Len(t) <= Len(s) /\ OccursAt(s, t, Len(s) - Len(t))

\* xs.join(sep) for an array of strings.
RECURSIVE Join(_, _)
Join(xs, sep) ==
  IF xs = <<>> THEN <<>>
  ELSE IF Len(xs) = 1 THEN xs[1]
  ELSE xs[1] \o sep \o Join(Tail(xs), sep)

(***************************************************************************)
(* Regular expressions.  A pattern is a tree of the nodes below.  Ends     *)
(* lists the states (position i, captures c) in which a match of pattern x *)
(* started in state st can end, in the order in which the backtracking     *)
(* matcher of RegExp.prototype.exec tries them: alternatives left to       *)
(* right, a greedy quantifier the longer repetition first, a lazy one the  *)
(* shorter first.  The match exec reports is the first of the list.  A     *)
(* quantified character class is stepped over as a run; no repeated body   *)
(* of the source's patterns matches the empty string.                      *)
(***************************************************************************)
Cls(cs) == [t |-> "in", cs |-> cs]
NotCls(cs) == [t |-> "notin", cs |-> cs]
Lit(ch) == Cls({ch})
AnyChar == NotCls({})
Cat(xs) == [t |-> "cat", xs |-> xs]
Alt(x, y) == [t |-> "alt", x |-> x, y |-> y]
Star(x) == [t |-> "star", x |-> x]
LazyStar(x) == [t |-> "lazystar", x |-> x]
Plus(x) == Cat(<<x, Star(x)>>)
Opt(x) == Alt(x, Cat(<<>>))
Cap(n, x) == [t |-> "cap", n |-> n, x |-> x]
Ref(n) == [t |-> "ref", n |-> n]
Bol == [t |-> "bol"]
Eol == [t |-> "eol"]

NoCaps == [n \in 1..2 |-> <<>>]

IsClass(x) == x.t = "in" \/ x.t = "notin"
InClass(x, ch) == IF x.t = "in" THEN ch \in x.cs ELSE ch \notin x.cs

\* The number of characters of s from position i on that are in the class x.
RunLength(s, i, x) ==
  IF \A j \in (i + 1)..Len(s) : InClass(x, s[j]) THEN Len(s) - i
  ELSE (CHOOSE j \in (i + 1)..Len(s) :
          ~InClass(x, s[j]) /\ \A k \in (i + 1)..(j - 1) : InClass(x, s[k])) - i - 1

\* The concatenation of a sequence of sequences.
RECURSIVE Flatten(_)
Flatten(xss) ==
  IF Len(xss) = 0 THEN <<>>
  ELSE IF Len(xss) = 1 THEN xss[1]
  ELSE Flatten(SubSeq(xss, 1, Len(xss) \div 2))
         \o Flatten(SubSeq(xss, Len(xss) \div 2 + 1, Len(xss)))

RECURSIVE Ends(_, _, _), EndsAll(_, _, _), EndsCat(_, _, _, _)

\* The ends of x from each of the states, in order.
EndsAll(s, x, states) == Flatten([k \in 1..Len(states) |-> Ends(s, x, states[k])])

\* The ends of xs[k], xs[k + 1], ... matched one after the other.
EndsCat(s, xs, k, states) ==
  IF k > Len(xs) \/ Len(states) = 0 THEN states
  ELSE EndsCat(s, xs, k + 1, EndsAll(s, xs[k], states))

Ends(s, x, st) ==
  CASE IsClass(x) ->
         IF st.i < Len(s) /\ InClass(x, s[st.i + 1]) THEN <<[st EXCEPT !.i = @ + 1]>> ELSE <<>>
    [] x.t = "cat" -> EndsCat(s, x.xs, 1, <<st>>)
    [] x.t = "alt" -> Ends(s, x.x, st) \o Ends(s, x.y, st)
    [] x.t = "star" ->
         IF IsClass(x.x)
         THEN LET n == RunLength(s, st.i, x.x)
              IN [k \in 1..(n + 1) |-> [st EXCEPT !.i = st.i + n + 1 - k]]
         ELSE EndsAll(s, x, Ends(s, x.x, st)) \o <<st>>
    [] x.t = "lazystar" ->
         IF IsClass(x.x)
         THEN LET n == RunLength(s, st.i, x.x)
              IN [k \in 1..(n + 1) |-> [st EXCEPT !.i = st.i + k - 1]]
         ELSE <<st>> \o EndsAll(s, x, Ends(s, x.x, st))
    [] x.t = "cap" ->
         LET es == Ends(s, x.x, st)
         IN [k \in 1..Len(es) |-> [es[k] EXCEPT !.c[x.n] = SubSeq(s, st.i + 1, es[k].i)]]
    [] x.t = "ref" ->
         IF OccursAt(s, st.c[x.n], st.i) THEN <<[st EXCEPT !.i = @ + Len(st.c[x.n])]>> ELSE <<>>
    [] x.t = "bol" -> IF st.i = 0 THEN <<st>> ELSE <<>>
    [] x.t = "eol" -> IF st.i = Len(s) THEN <<st>> ELSE <<>>

\* Does re match s at position i?
MatchesAt(re, s, i) == Len(Ends(s, re, [i |-> i, c |-> NoCaps])) > 0

\* The result of an exec that found nothing: null, and lastIndex is reset to 0.
NoMatch == [found |-> FALSE, lastIndex |-> 0]

\* The match of re in s that starts at index and ends in the state end.
MatchResult(s, index, end) ==
  [found |-> TRUE, index |-> index, lastIndex |-> end.i,
   text |-> SubSeq(s, index + 1, end.i), caps |-> end.c]

\* The match at the least of the positions starts, the positions where re matches.
SearchAmong(re, s, starts) ==
  IF starts = {} THEN NoMatch
  ELSE MatchResult(s, CHOOSE i \in starts : \A j \in starts : i <= j,
                   Head(Ends(s, re, [i |-> CHOOSE i \in starts : \A j \in starts : i <= j,
                                     c |-> NoCaps])))

\* The leftmost match of re in s starting at position from or later.
Search(re, s, from) == SearchAmong(re, s, {i \in from..Len(s) : MatchesAt(re, s, i)})

\* re.exec(s) for a pattern with the g flag whose lastIndex is lastIndex.
RegExpExec(re, s, lastIndex) ==
  IF lastIndex > Len(s) THEN NoMatch ELSE Search(re, s, lastIndex)

\* s.match(re) !== null, for a pattern without the g flag
RegExpTest(re, s) == Search(re, s, 0).found

(***************************************************************************)
(* The patterns of the source.                                             *)
(***************************************************************************)
Letter == Lower \cup Upper
AlphaNum == Letter \cup Digit
Space == Cls(WhiteSpace)

\* {(?:[^{}]|\{(?:[^{}]|\{[^{}]*\})*\})*}
BraceValue ==
  LET NotBrace == NotCls({"{", "}"})
      Inner2 == Cat(<<Lit("{"), Star(NotBrace), Lit("}")>>)
      Inner1 == Cat(<<Lit("{"), Star(Alt(NotBrace, Inner2)), Lit("}")>>)
  IN Cat(<<Lit("{"), Star(Alt(NotBrace, Inner1)), Lit("}")>>)

\* (?:"[^"]*"|'[^']*'|{...})
AttrValue ==
  Alt(Cat(<<Lit("\""), Star(NotCls({"\""})), Lit("\"")>>),
      Alt(Cat(<<Lit("'"), Star(NotCls({"'"})), Lit("'")>>), BraceValue))

\* (\s+[^=<>/\s]+(?:\s*=\s*(?:...))?)
AttrPattern ==
  Cap(1, Cat(<<Plus(Space), Plus(NotCls({"=", "<", ">", "/"} \cup WhiteSpace)),
               Opt(Cat(<<Star(Space), Lit("="), Star(Space), AttrValue>>))>>))

kMarkupPattern ==
  Cat(<<Lit("<"), Opt(Lit("/")), Cls(Letter), Star(Cls(AlphaNum)), Star(AttrPattern),
        Star(Space), Opt(Lit("/")), Lit(">")>>)

\* <([a-zA-Z][^\s/>]*)(?:\s[^>]*?)?   with the name captured as group n
JsxOpenPattern(n) ==
  <<Lit("<"), Cap(n, Cat(<<Cls(Letter), Star(NotCls(WhiteSpace \cup {"/", ">"}))>>)),
    Opt(Cat(<<Space, LazyStar(NotCls({">"}))>>))>>

\* The pattern with the slash of the self-closing form optional.
JSX_STRING_SlashOptional ==
  Alt(Cat(JsxOpenPattern(1) \o <<Lit(">"), LazyStar(AnyChar), Lit("<"), Lit("/"), Ref(1), Lit(">")>>),
      Cat(JsxOpenPattern(2) \o <<Opt(Lit("/")), Lit(">")>>))

JSX_STRING ==
  Alt(Cat(JsxOpenPattern(1) \o <<Lit(">"), LazyStar(AnyChar), Lit("<"), Lit("/"), Ref(1), Lit(">")>>),
      Cat(JsxOpenPattern(2) \o <<Lit("/"), Lit(">")>>))

JSX_INTERPOLATION == Cat(<<Lit("{"), Cap(1, Plus(Cls(AlphaNum))), Lit("}")>>)

\* /^\{[^}]+\}$/
SingleInterpolation == Cat(<<Bol, Lit("{"), Plus(NotCls({"}"})), Lit("}"), Eol>>)

(***************************************************************************)
(* Objects.  An object with string keys is the sequence of its properties  *)
(* [key, value] in the order for...in visits them: array-index keys in     *)
(* ascending numeric order first, then the other keys in insertion order.  *)
(***************************************************************************)
RECURSIVE NumericValue(_)
NumericValue(s) ==
  IF s = <<>> THEN 0 ELSE 10 * NumericValue(SubSeq(s, 1, Len(s) - 1)) + (CharCode(s[Len(s)]) - 48)

\* Is key a canonical array index ("0", "7", "12", not "07")?  (indexes below 2^32 - 1)
IsArrayIndex(key) ==
  /\ key # <<>>
  /\ \A i \in 1..Len(key) : key[i] \in Digit
  /\ (Len(key) > 1 => key[1] # "0")
  /\ Len(key) <= 9

HasKey(obj, key) == \E i \in 1..Len(obj) : obj[i].key = key

\* obj[key], for a key the object has
GetKey(obj, key) == obj[CHOOSE i \in 1..Len(obj) : obj[i].key = key].value

\* obj[key] = value
SetKey(obj, key, value) ==
  IF HasKey(obj, key)
  THEN [i \in 1..Len(obj) |-> IF obj[i].key = key THEN [key |-> key, value |-> value] ELSE obj[i]]
  ELSE
    LET before ==
          IF IsArrayIndex(key)
          THEN Cardinality({i \in 1..Len(obj) :
                  IsArrayIndex(obj[i].key) /\ NumericValue(obj[i].key) < NumericValue(key)})
          ELSE Len(obj)
    IN SubSeq(obj, 1, before) \o <<[key |-> key, value |-> value]>>
         \o SubSeq(obj, before + 1, Len(obj))

(***************************************************************************)
(* html-parser.js: parseProps                                              *)
(***************************************************************************)
\* The locals of parseProps before its loop.
PropsStart ==
  [attrs |-> <<>>, currentKey |-> <<>>, currentValue |-> <<>>, inQuotes |-> FALSE,
   quoteType |-> "", inBraces |-> FALSE, isParsingValue |-> FALSE]

\* attrs[currentKey.trim()] = the trimmed value, without its braces if it starts with one
StorePair(attrs, currentKey, currentValue) ==
  LET trimmed == Trim(currentValue)
      unwrapped == IF trimmed[1] = "{" THEN Slice(trimmed, 1, -1) ELSE trimmed
  IN SetKey(attrs, Trim(currentKey), Trim(unwrapped))

\* One iteration of the loop of parseProps, on the character char.
PropsChar(st, char) ==
  IF st.inQuotes THEN
    IF char = st.quoteType
    THEN [st EXCEPT !.inQuotes = FALSE, !.currentValue = @ \o <<char>>]
    ELSE [st EXCEPT !.currentValue = @ \o <<char>>]
  ELSE IF st.inBraces THEN
    IF char = "}"
    THEN [st EXCEPT !.inBraces = FALSE, !.currentValue = @ \o <<char>>]
    ELSE [st EXCEPT !.currentValue = @ \o <<char>>]
  ELSE IF char = "=" THEN [st EXCEPT !.isParsingValue = TRUE]
  ELSE IF char = "\"" \/ char = "'" THEN
    [st EXCEPT !.inQuotes = TRUE, !.quoteType = char, !.currentValue = @ \o <<char>>]
  ELSE IF char = "{" THEN [st EXCEPT !.inBraces = TRUE, !.currentValue = @ \o <<char>>]
  ELSE IF char = " " /\ st.isParsingValue /\ Trim(st.currentValue) # <<>> THEN
    [st EXCEPT !.attrs = StorePair(st.attrs, st.currentKey, st.currentValue),
               !.currentKey = <<>>, !.currentValue = <<>>, !.isParsingValue = FALSE]
  ELSE IF st.isParsingValue THEN [st EXCEPT !.currentValue = @ \o <<char>>]
  ELSE [st EXCEPT !.currentKey = @ \o <<char>>]

\* The iterations of the loop for the characters at positions from .. to - 1.
RECURSIVE PropsLoop(_, _, _, _)
PropsLoop(propsString, from, to, st) ==
  IF from >= to THEN st
  ELSE IF to = from + 1 THEN PropsChar(st, propsString[from + 1])
  ELSE PropsLoop(propsString, (from + to) \div 2, to,
                 PropsLoop(propsString, from, (from + to) \div 2, st))

\* The pair left when the loop ends, stored like the others.
PropsEnd(st) ==
  IF Trim(st.currentKey) # <<>> /\ Trim(st.currentValue) # <<>>
  THEN StorePair(st.attrs, st.currentKey, st.currentValue)
  ELSE st.attrs

parseProps(propsString) == PropsEnd(PropsLoop(propsString, 0, Len(propsString), PropsStart))

(***************************************************************************)
(* html-parser.js: handleJSXTag                                            *)
(***************************************************************************)
handleJSXTag(input) ==
  LET trimmed == Trim(input)
      isSelfClosed == EndsWith(trimmed, <<"/", ">">>)
      innerContent == Trim(Slice(trimmed, 1, IF isSelfClosed THEN -2 ELSE -1))
      spaceIndex == IndexOf(innerContent, <<" ">>)
  IN IF StartsWith(trimmed, <<"<", "/">>)
     THEN [tagName |-> Trim(Slice(trimmed, 2, IndexOf(trimmed, <<">">>))), props |-> <<>>,
           isSelfClosed |-> FALSE, closed |-> TRUE]
     ELSE IF spaceIndex = -1
     THEN [tagName |-> innerContent, props |-> <<>>,
           isSelfClosed |-> isSelfClosed, closed |-> FALSE]
     ELSE [tagName |-> Slice(innerContent, 0, spaceIndex),
           props |-> Trim(SliceFrom(innerContent, spaceIndex + 1)),
           isSelfClosed |-> isSelfClosed, closed |-> FALSE]

(***************************************************************************)
(* html-parser.js: Node, TextNode, HTMLElement.  The nodes parse creates   *)
(* live in a heap, the sequence nodes; a reference to a node is its index  *)
(* and NoRef is the value undefined where a reference is expected.         *)
(***************************************************************************)
NoRef == 0

\* s.split(/\s+/)
RECURSIVE SplitWhiteSpace(_, _)
SplitWhiteSpace(s, piece) ==
  IF s = <<>> THEN <<piece>>
  ELSE IF Head(s) \in WhiteSpace
  THEN <<piece>> \o SplitWhiteSpace(TrimStart(s), <<>>)
  ELSE SplitWhiteSpace(Tail(s), piece \o <<Head(s)>>)

\* new TextNode(value)
TextNode(value) ==
  [type |-> "TextNode", text |-> value, childNodes |-> <<>>, parentNode |-> NoRef]

\* new HTMLElement(tagName, keyAttrs, rawAttrs)
HTMLElement(tagName, keyAttrs, rawAttrs) ==
  [type |-> "HTMLElement", tagName |-> tagName,
   rawAttrs |-> IF rawAttrs = JSUndefined THEN <<>> ELSE rawAttrs,
   attrs |-> keyAttrs,
   id |-> IF HasKey(keyAttrs, <<"i", "d">>) /\ GetKey(keyAttrs, <<"i", "d">>) # <<>>
          THEN GetKey(keyAttrs, <<"i", "d">>) ELSE JSUndefined,
   classNames |-> IF HasKey(keyAttrs, <<"c", "l", "a", "s", "s">>)
                     /\ GetKey(keyAttrs, <<"c", "l", "a", "s", "s">>) # <<>>
                  THEN SplitWhiteSpace(GetKey(keyAttrs, <<"c", "l", "a", "s", "s">>), <<>>)
                  ELSE <<>>,
   childNodes |-> <<>>, parentNode |-> NoRef]

\* parent.appendChild(node), for a node just created: the heap afterwards
appendChild(nodes, parent, node) ==
  [nodes EXCEPT ![parent].childNodes = @ \o <<Len(nodes) + 1>>]
    \o <<[node EXCEPT !.parentNode = parent]>>

\* stack.back: arrays have no property of that name
StackBack(stack) == NoRef

\* stack.pop()
StackPop(stack) == IF stack = <<>> THEN <<>> ELSE SubSeq(stack, 1, Len(stack) - 1)

(***************************************************************************)
(* html-parser.js: parse.  A parse in progress is the record of its locals *)
(* and of kMarkupPattern.lastIndex; status is "running" inside the loop,   *)
(* "returned" after return root, and the name of the error thrown          *)
(* otherwise: "Error" for the throw of the source, "TypeError" for a       *)
(* property read on undefined.                                             *)
(***************************************************************************)
Root == 1

ParseStart(data, lastIndex) ==
  [data |-> data, lastIndex |-> lastIndex,
   nodes |-> <<HTMLElement(JSNull, <<>>, JSUndefined)>>,
   currentParent |-> Root, stack |-> <<Root>>, lastTextPos |-> -1, status |-> "running"]

\* An open tag pushed whether it is self-closing or not.
ParseOpenTagAlwaysPushed(ps, jsxInfo, appended) ==
  [ps EXCEPT !.nodes = appended, !.currentParent = Len(appended),
             !.stack = ps.stack \o <<Len(appended)>>]

\* An open tag: the element appended to the current parent (appended is the heap
\* with it), pushed if the tag is not self-closing.
ParseOpenTag(ps, jsxInfo, appended) ==
  IF jsxInfo.isSelfClosed THEN [ps EXCEPT !.nodes = appended]
  ELSE [ps EXCEPT !.nodes = appended, !.currentParent = Len(appended),
                  !.stack = ps.stack \o <<Len(appended)>>]

\* The body of the loop once the text before the tag is handled: the tag itself.
ParseTagInfo(ps, match, jsxInfo) ==
  IF ps.currentParent = NoRef THEN [ps EXCEPT !.status = "TypeError"]
  ELSE IF jsxInfo.closed THEN
    IF Includes(match.text, ps.nodes[ps.currentParent].tagName)
    THEN [ps EXCEPT !.stack = StackPop(ps.stack), !.currentParent = StackBack(StackPop(ps.stack))]
    ELSE [ps EXCEPT !.status = "Error"]
  ELSE ParseOpenTag(ps, jsxInfo,
                    appendChild(ps.nodes, ps.currentParent,
                                HTMLElement(jsxInfo.tagName, parseProps(jsxInfo.props),
                                            jsxInfo.props)))

ParseTag(ps, match) == ParseTagInfo(ps, match, handleJSXTag(match.text))

\* The text between the last tag and this one, appended if there is any, then the tag.
ParseText(scanned, match, hasText) ==
  IF hasText /\ scanned.currentParent = NoRef THEN [scanned EXCEPT !.status = "TypeError"]
  ELSE ParseTag([scanned EXCEPT
                   !.nodes =
                     IF hasText
                     THEN appendChild(scanned.nodes, scanned.currentParent,
                                      TextNode(Substring(scanned.data, scanned.lastTextPos,
                                                         match.lastIndex - Len(match.text))))
                     ELSE scanned.nodes,
                   !.lastTextPos = match.lastIndex],
                match)

\* The loop condition has been evaluated: match is what exec returned.
ParseMatched(ps, match) ==
  IF ~match.found THEN [ps EXCEPT !.lastIndex = match.lastIndex, !.status = "returned"]
  ELSE ParseText([ps EXCEPT !.lastIndex = match.lastIndex], match,
                 ps.lastTextPos > -1 /\ ps.lastTextPos + Len(match.text) < match.lastIndex)

\* One evaluation of the loop condition and, if a tag is found, of the loop body.
ParseStep(ps) == ParseMatched(ps, RegExpExec(kMarkupPattern, ps.data, ps.lastIndex))

RECURSIVE ParseLoop(_)
ParseLoop(ps) == IF ps.status = "running" THEN ParseLoop(ParseStep(ps)) ELSE ps

\* parse(data) called when kMarkupPattern.lastIndex is lastIndex
parse(data, lastIndex) == ParseLoop(ParseStart(data, lastIndex))

(***************************************************************************)
(* The translator module: parseText                                        *)
(***************************************************************************)
\* s.replace(/\s+/g, " "): every run of white space becomes one space.  The two
\* halves are rewritten apart; a run that spans the cut gave a space on either side.
RECURSIVE CollapseWhiteSpace(_)
CollapseWhiteSpace(s) ==
  IF Len(s) = 0 THEN <<>>
  ELSE IF Len(s) = 1 THEN (IF s[1] \in WhiteSpace THEN <<" ">> ELSE s)
  ELSE LET half == Len(s) \div 2
           left == CollapseWhiteSpace(SubSeq(s, 1, half))
           right == CollapseWhiteSpace(SubSeq(s, half + 1, Len(s)))
       IN IF s[half] \in WhiteSpace /\ s[half + 1] \in WhiteSpace
          THEN left \o Tail(right)
          ELSE left \o right

\* `${text}` between backquotes
Quoted(text) == <<Backtick>> \o text \o <<Backtick>>

\* The parts with the literal text, trimmed, added in backquotes if it is not empty.
WithLiteral(parts, literal) == IF literal # <<>> THEN parts \o <<Quoted(literal)>> ELSE parts

\* The while loop of parseText and what follows it.  cursor is
\* JSX_INTERPOLATION.lastIndex; lastIndex and parts are the locals of that name.
RECURSIVE TextLoop(_, _, _, _), TextMatched(_, _, _, _)
TextMatched(rawText, lastIndex, parts, interpolation) ==
  IF interpolation.found
  THEN TextLoop(rawText, interpolation.lastIndex,
                interpolation.index + Len(interpolation.text),
                WithLiteral(parts, Trim(Slice(rawText, lastIndex, interpolation.index)))
                  \o <<interpolation.caps[1]>>)
  ELSE Join(WithLiteral(parts, Trim(SliceFrom(rawText, lastIndex))), <<",">>)

TextLoop(rawText, cursor, lastIndex, parts) ==
  TextMatched(rawText, lastIndex, parts, RegExpExec(JSX_INTERPOLATION, rawText, cursor))

\* The text once collapsed and trimmed.  rawText.match(JSX_INTERPOLATION) sets the
\* pattern's lastIndex to 0 and leaves it at 0, so the loop starts at 0 whatever an
\* earlier call left.
parseTextCollapsed(rawText) ==
  IF RegExpExec(JSX_INTERPOLATION, rawText, 0).found
  THEN IF RegExpTest(SingleInterpolation, rawText)
       THEN Slice(rawText, 1, -1)
       ELSE TextLoop(rawText, 0, 0, <<>>)
  ELSE Quoted(rawText)

\* parseText taking every text for plain text.
parseTextPlain(text) == Quoted(Trim(CollapseWhiteSpace(text)))

parseText(text) == parseTextCollapsed(Trim(CollapseWhiteSpace(text)))

(***************************************************************************)
(* The translator module: stringify and translate                          *)
(***************************************************************************)
RECURSIVE PropStrings(_)
PropStrings(props) ==
  IF props = <<>> THEN <<>>
  ELSE <<props[1].key \o <<":">> \o props[1].value>> \o PropStrings(Tail(props))

stringify(props) == <<"{">> \o Join(PropStrings(props), <<",">>) \o <<"}">>

\* The test made on every character of the name.
isLowerCaseWholeName(str) ==
  str # <<>> /\ \A i \in 1..Len(str) :
                 CharCode("a") <= CharCode(str[i]) /\ CharCode(str[i]) <= CharCode("z")

\* "a" <= str[0] && str[0] <= "z"
isLowerCase(str) ==
  str # <<>> /\ CharCode("a") <= CharCode(str[1]) /\ CharCode(str[1]) <= CharCode("z")

CreateElementCall == <<"M", "i", "n", "i", "R", "e", "a", "c", "t", ".", "c", "r", "e", "a", "t", "e", "E", "l", "e", "m", "e", "n", "t", "(">>

\* xs.filter((node) => node !== undefined): a null stays.
RECURSIVE FilterNotUndefined(_)
FilterNotUndefined(xs) ==
  IF xs = <<>> THEN <<>>
  ELSE (IF xs[1] = JSUndefined THEN <<>> ELSE <<xs[1]>>) \o FilterNotUndefined(Tail(xs))

\* xs.filter((node) => node != null)
RECURSIVE FilterNotNull(_)
FilterNotNull(xs) ==
  IF xs = <<>> THEN <<>>
  ELSE (IF xs[1] = JSNull \/ xs[1] = JSUndefined THEN <<>> ELSE <<xs[1]>>)
         \o FilterNotNull(Tail(xs))

\* translate(root) for the node with reference root in the heap nodes: the value
\* returned (a string or null), or the error thrown when root is undefined.
RECURSIVE translate(_, _)
translate(nodes, root) ==
  IF root = NoRef THEN [status |-> "TypeError"]
  ELSE
    LET node == nodes[root]
        children ==
          FilterNotNull([i \in 1..Len(node.childNodes) |->
                            translate(nodes, node.childNodes[i]).value])
    IN IF node.type = "TextNode"
       THEN IF Trim(node.text) = <<>>
            THEN [status |-> "returned", value |-> JSNull]
            ELSE [status |-> "returned", value |-> parseText(node.text)]
       ELSE [status |-> "returned",
             value |-> CreateElementCall
                       \o (IF isLowerCase(node.tagName)
                           THEN <<"\"">> \o node.tagName \o <<"\"">>
                           ELSE node.tagName)
                       \o <<",">> \o stringify(node.attrs)
                       \o <<",">> \o Join(children, <<",">>) \o <<")">>]

(***************************************************************************)
(* The translator module: parseJSX                                         *)
(***************************************************************************)
\* The expansion of the replacement text of str.replace(pattern, replacement) for a
\* string pattern found at position: $$, $&, $` and $' are special, and with no
\* capture groups every other $ stands for itself.
RECURSIVE GetSubstitution(_, _, _, _)
GetSubstitution(matched, str, position, replacement) ==
  LET dollar == IndexOf(replacement, <<"$">>)
      next == IF dollar + 1 < Len(replacement) THEN replacement[dollar + 2] ELSE ""
  IN IF dollar = -1 THEN replacement
     ELSE IF next \in {"$", "&", Backtick, "'"}
     THEN SubSeq(replacement, 1, dollar)
            \o (CASE next = "$" -> <<"$">>
                  [] next = "&" -> matched
                  [] next = Backtick -> SubSeq(str, 1, position)
                  [] next = "'" -> SubSeq(str, position + Len(matched) + 1, Len(str)))
            \o GetSubstitution(matched, str, position, SliceFrom(replacement, dollar + 2))
     ELSE SubSeq(replacement, 1, dollar + 1)
            \o GetSubstitution(matched, str, position, SliceFrom(replacement, dollar + 1))

\* str.replace(pattern, replacement) for a string pattern: the first occurrence only.
StringReplace(str, pattern, replacement) ==
  LET position == IndexOf(str, pattern)
  IN IF position = -1 THEN str
     ELSE SubSeq(str, 1, position)
            \o GetSubstitution(pattern, str, position, JSString(replacement))
            \o SubSeq(str, position + Len(pattern) + 1, Len(str))

\* A call of parseJSX in progress: str, the lastIndex of JSX_STRING and of
\* kMarkupPattern, the number of replacements done and the status.
JsxStart(str, lastIndex, kLastIndex) ==
  [str |-> str, lastIndex |-> lastIndex, kLastIndex |-> kLastIndex, rewrites |-> 0,
   status |-> "running"]

\* translate has returned: the span is replaced in str.
JsxTranslated(scanned, HTML, translated) ==
  IF translated.status # "returned" THEN [scanned EXCEPT !.status = translated.status]
  ELSE [scanned EXCEPT !.str = StringReplace(scanned.str, HTML, translated.value),
                       !.rewrites = scanned.rewrites + 1]

\* root.childNodes[0]
FirstChild(root) ==
  IF root.nodes[Root].childNodes = <<>> THEN NoRef ELSE root.nodes[Root].childNodes[1]

\* parse has returned root or thrown; with a root, translate is called on its first child.
JsxParsed(scanned, HTML, root) ==
  IF root.status # "returned"
  THEN [scanned EXCEPT !.kLastIndex = root.lastIndex, !.status = root.status]
  ELSE JsxTranslated([scanned EXCEPT !.kLastIndex = root.lastIndex], HTML,
                     translate(root.nodes, FirstChild(root)))

\* The loop condition has been evaluated: match is what exec returned.
JsxMatched(js, match) ==
  IF ~match.found THEN [js EXCEPT !.lastIndex = match.lastIndex, !.status = "returned"]
  ELSE JsxParsed([js EXCEPT !.lastIndex = match.lastIndex], match.text,
                 parse(match.text, js.kLastIndex))

\* One evaluation of the loop condition of parseJSX and, if a span is found, of its body.
JsxStep(js) == JsxMatched(js, RegExpExec(JSX_STRING, js.str, js.lastIndex))

\* The loop, cut off after MaxRewrites replacements (the status stays "running").
RECURSIVE JsxLoop(_)
JsxLoop(js) ==
  IF js.status = "running" /\ js.rewrites < MaxRewrites THEN JsxLoop(JsxStep(js)) ELSE js

\* parseJSX(str) called with the two patterns' lastIndex as given
parseJSX(str, lastIndex, kLastIndex) == JsxLoop(JsxStart(str, lastIndex, kLastIndex))

(***************************************************************************)
(* Inputs.  A source text is a sequence of segments, each a piece of plain *)
(* text or one markup element, kept with its parts so that a property can  *)
(* speak of the tag, the attributes and the children that were written.    *)
(* The text handed to the program is Source of the sequence.               *)
(***************************************************************************)
SeqsUpTo(S, n) == UNION {[1..k -> S] : k \in 0..n}

Source(segments) == Flatten([k \in 1..Len(segments) |-> segments[k].src])

Spaces(n) == [k \in 1..n |-> " "]

\* key=value key=value ..., each after one space
AttrSource(attrs) ==
  Flatten([k \in 1..Len(attrs) |-> <<" ">> \o attrs[k].key \o <<"=">> \o attrs[k].value])

TextSeg(src) == [kind |-> "text", src |-> src]

\* <tag attrs>children</tag>
Element(tag, attrs, children) ==
  [kind |-> "element", tag |-> tag, attrs |-> attrs, children |-> children,
   selfClosed |-> FALSE,
   src |-> <<"<">> \o tag \o AttrSource(attrs) \o <<">">> \o Source(children)
             \o <<"<", "/">> \o tag \o <<">">>]

\* <tag attrs/> with pad spaces before the slash
SelfClosing(tag, attrs, pad) ==
  [kind |-> "element", tag |-> tag, attrs |-> attrs, children |-> <<>>,
   selfClosed |-> TRUE,
   src |-> <<"<">> \o tag \o AttrSource(attrs) \o Spaces(pad) \o <<"/", ">">>]

Attr(key, value) == [key |-> key, value |-> value]

\* What an element may contain: text, blank text, and two elements.
ChildPieces ==
  {TextSeg(<<"h", "i">>), TextSeg(<<" ">>),
   SelfClosing(<<"B">>, <<>>, 0), Element(<<"b">>, <<>>, <<TextSeg(<<"y">>)>>)}

Tags == {<<"d", "i", "v">>, <<"F", "o", "o">>, <<"f", "O", "O">>, <<"D", "I", "V">>}

AttrLists == {<<>>, <<Attr(<<"b", "a", "r">>, <<"\"", "1", "\"">>)>>, <<Attr(<<"i", "d">>, <<"\"", "x", "\"">>)>>}

\* One element: every tag with every attribute list, and a div with every child list.
ElementInputs ==
  {<<Element(tag, attrs, children)>> :
      tag \in Tags, attrs \in AttrLists, children \in {<<>>, <<TextSeg(<<"h", "i">>)>>}}
  \cup {<<SelfClosing(tag, attrs, pad)>> : tag \in Tags, attrs \in AttrLists, pad \in 0..1}
  \cup {<<Element(<<"d", "i", "v">>, <<>>, children)>> : children \in SeqsUpTo(ChildPieces, MaxChildren)}

\* Several spans in host text.
SpanSegments ==
  {TextSeg(<<" ">>), SelfClosing(<<"A">>, <<>>, MaxPad),
   SelfClosing(<<"B">>, <<>>, 0), Element(<<"b">>, <<>>, <<TextSeg(<<"y">>)>>)}

SpanInputs == SeqsUpTo(SpanSegments, MaxSegments)

\* One element whose text or attribute value has "$" in it, alone and in host text.
DollarTexts == {<<"$">>, <<"$", "$">>, <<"$", "&">>}

DollarElements ==
  {Element(<<"a">>, <<>>, <<TextSeg(t)>>) : t \in DollarTexts}
  \cup {Element(<<"a">>, <<Attr(<<"k">>, <<"\"", "$", "$", "\"">>)>>, <<>>)}

DollarInputs ==
  {<<e>> : e \in DollarElements}
  \cup {<<TextSeg(<<"x">>), e, TextSeg(<<"y">>)>> : e \in DollarElements}

TransformInputs == ElementInputs \cup SpanInputs \cup DollarInputs

\* The texts of a text node: up to MaxFragments pieces.
TextPieces == {<<"H", "e", "l", "l", "o">>, <<" ">>, <<"\n">>, <<"{", "n", "a", "m", "e", "}">>, <<"{", "n", "1", "}">>, <<"!">>, <<"{">>}

TextInputs == {t \in SeqsUpTo({TextSeg(piece) : piece \in TextPieces}, MaxFragments) : t # <<>>}

\* The inputs of parse: up to MaxTokens tags and texts, not necessarily balanced.
TokenPieces == {<<"<", "a", ">">>, <<"<", "/", "a", ">">>, <<"<", "a", "b", ">">>, <<"<", "/", "a", "b", ">">>, <<"<", "B", "/", ">">>, <<"x">>}

TokenInputs == SeqsUpTo({TextSeg(piece) : piece \in TokenPieces}, MaxTokens)

\* The inputs of the calls a long-lived process makes one after the other: text,
\* tags that make no span, a span that translates and one whose parse throws.
ProcessSegments ==
  {TextSeg(<<"x">>), TextSeg(<<"<", "a", ">", "x", "<", "/", "b", ">">>), Element(<<"a">>, <<>>, <<TextSeg(<<"y">>)>>),
   Element(<<"a">>, <<>>, <<TextSeg(<<"<", "b", ">">>)>>)}

CallInputs == SeqsUpTo(ProcessSegments, MaxCallSegments)

(***************************************************************************)
(* State.                                                                  *)
(***************************************************************************)
VARIABLES
  kLastIndex,    \* kMarkupPattern.lastIndex, module state of html-parser.js
  jsxLastIndex,  \* JSX_STRING.lastIndex, module state of the translator
  fn,            \* the function called last, "idle" when its result was taken
  arg,           \* its argument, as segments
  ps,            \* the call in progress when parse or parseJSX is followed step by step
  outcome        \* how the call ended: [status, value]

vars == <<kLastIndex, jsxLastIndex, fn, arg, ps, outcome>>

NoParse == [status |-> "none"]
NoOutcome == [status |-> "none", value |-> JSUndefined]

\* What the caller of parseJSX sees: the returned text or the error thrown.
JsxOutcome(js) ==
  [status |-> js.status, value |-> IF js.status = "returned" THEN js.str ELSE JSUndefined]

\* What the caller of parse sees: the heap holding the tree of root, or the error.
ParseOutcome(p) ==
  [status |-> p.status, value |-> IF p.status = "returned" THEN p.nodes ELSE JSUndefined]

(***************************************************************************)
(* A process that calls the exported functions one after the other.  The   *)
(* patterns keep their lastIndex from one call to the next.                *)
(***************************************************************************)
Init ==
  /\ kLastIndex = 0
  /\ jsxLastIndex = 0
  /\ fn = "idle"
  /\ arg = <<>>
  /\ ps = NoParse
  /\ outcome = NoOutcome

\* The call of parseJSX ends as js: the outcome, and the patterns as it leaves them.
JsxEnds(js) ==
  /\ outcome' = JsxOutcome(js)
  /\ jsxLastIndex' = js.lastIndex
  /\ kLastIndex' = js.kLastIndex

\* The call of parse ends as p.
ParseEnds(p) ==
  /\ outcome' = ParseOutcome(p)
  /\ kLastIndex' = p.lastIndex

\* parseJSX(Source(x)), the export of the translator module
CallParseJSX(x) ==
  /\ fn = "idle"
  /\ JsxEnds(parseJSX(Source(x), jsxLastIndex, kLastIndex))
  /\ fn' = "parseJSX"
  /\ arg' = x
  /\ UNCHANGED ps

\* parse(Source(x)), exported by html-parser.js
CallParse(x) ==
  /\ fn = "idle"
  /\ ParseEnds(parse(Source(x), kLastIndex))
  /\ fn' = "parse"
  /\ arg' = x
  /\ UNCHANGED <<jsxLastIndex, ps>>

\* The caller takes the result (or catches the error) and goes on.
Resume ==
  /\ fn # "idle"
  /\ fn' = "idle"
  /\ arg' = <<>>
  /\ outcome' = NoOutcome
  /\ UNCHANGED <<kLastIndex, jsxLastIndex, ps>>

Next ==
  \/ \E x \in CallInputs : CallParseJSX(x)
  \/ \E x \in CallInputs : CallParse(x)
  \/ Resume

Spec == Init /\ [][Next]_vars

(***************************************************************************)
(* parseJSX as a function of its input: one call in a fresh process.       *)
(***************************************************************************)
InitTransform ==
  /\ kLastIndex = 0
  /\ jsxLastIndex = 0
  /\ fn = "idle"
  /\ arg \in TransformInputs
  /\ ps = NoParse
  /\ outcome = NoOutcome

NextTransform == CallParseJSX(arg)

SpecTransform == InitTransform /\ [][NextTransform]_vars

(***************************************************************************)
(* translate and parseText as functions of a text node's text.             *)
(***************************************************************************)
InitText ==
  /\ kLastIndex = 0
  /\ jsxLastIndex = 0
  /\ fn = "idle"
  /\ arg \in TextInputs
  /\ ps = NoParse
  /\ outcome = NoOutcome

\* translate(new TextNode(Source(arg)))
TranslateText ==
  /\ fn = "idle"
  /\ fn' = "translate"
  /\ outcome' = translate(<<TextNode(Source(arg))>>, 1)
  /\ UNCHANGED <<kLastIndex, jsxLastIndex, arg, ps>>

\* parseText(Source(arg)); translate calls it for text that is not blank only
ApplyParseText ==
  /\ fn = "idle"
  /\ Trim(Source(arg)) # <<>>
  /\ fn' = "parseText"
  /\ outcome' = [status |-> "returned", value |-> parseText(Source(arg))]
  /\ UNCHANGED <<kLastIndex, jsxLastIndex, arg, ps>>

NextText == TranslateText \/ ApplyParseText

SpecText == InitText /\ [][NextText]_vars

(***************************************************************************)
(* parse followed one loop iteration at a time, in a fresh process.        *)
(***************************************************************************)
InitParse ==
  /\ kLastIndex = 0
  /\ jsxLastIndex = 0
  /\ fn = "parse"
  /\ arg \in TokenInputs
  /\ ps = ParseStart(Source(arg), 0)
  /\ outcome = NoOutcome

ParseIteration ==
  /\ ps.status = "running"
  /\ ps' = ParseStep(ps)
  /\ kLastIndex' = ps'.lastIndex
  /\ outcome' = IF ps'.status = "running" THEN outcome ELSE ParseOutcome(ps')
  /\ UNCHANGED <<jsxLastIndex, fn, arg>>

NextParse == ParseIteration

SpecParse == InitParse /\ [][NextParse]_vars

(***************************************************************************)
(* parseProps and stringify applied to the attributes of one open tag.     *)
(* The attributes are kept as they were written: the key, the form of the  *)
(* value and the text the value stands for.                                *)
(***************************************************************************)
\* key={expr}
BraceAttr(key, expr) ==
  [key |-> key, form |-> "brace", expr |-> expr,
   src |-> key \o <<"=", "{">> \o expr \o <<"}">>]

\* key="text" or key='text'; what the value stands for keeps the quotes
QuoteAttr(key, quote, text) ==
  [key |-> key, form |-> "quote", expr |-> <<quote>> \o text \o <<quote>>,
   src |-> key \o <<"=", quote>> \o text \o <<quote>>]

\* key alone
BareAttr(key) == [key |-> key, form |-> "bare", expr |-> <<>>, src |-> key]

AttrPieces ==
  {BraceAttr(<<"k">>, <<"a", " ", "b">>), BraceAttr(<<"k">>, <<"{", "b", "}", " ", "c">>), BraceAttr(<<"n">>, <<"{", "b", "}">>),
   QuoteAttr(<<"q">>, "\"", <<"x", " ", "y">>), QuoteAttr(<<"q">>, "'", <<"u">>),
   QuoteAttr(<<"1">>, "\"", <<"z">>), BareAttr(<<"d", "i", "s", "a", "b", "l", "e", "d">>)}

PropsInputs == SeqsUpTo(AttrPieces, MaxAttrs)

\* <t attr attr ...>
TagSource(attrs) ==
  <<"<", "t">> \o Flatten([k \in 1..Len(attrs) |-> <<" ">> \o attrs[k].src]) \o <<">">>

\* The tag is one the tag pattern accepts whole.
TagAccepted(attrs) ==
  RegExpExec(kMarkupPattern, TagSource(attrs), 0).lastIndex = Len(TagSource(attrs))

\* The attributes parse gets for the tag: parseProps(props) on the props of handleJSXTag
TagAttrs(attrs) == parseProps(handleJSXTag(TagSource(attrs)).props)

InitProps ==
  /\ kLastIndex = 0
  /\ jsxLastIndex = 0
  /\ fn = "idle"
  /\ arg \in PropsInputs
  /\ ps = NoParse
  /\ outcome = NoOutcome

\* const attrs = parseProps(props)
ApplyParseProps ==
  /\ fn = "idle"
  /\ TagAccepted(arg)
  /\ fn' = "parseProps"
  /\ outcome' = [status |-> "returned", value |-> TagAttrs(arg)]
  /\ UNCHANGED <<kLastIndex, jsxLastIndex, arg, ps>>

\* let tmp = stringify(props), for the attributes of the tag
ApplyStringify ==
  /\ fn = "idle"
  /\ TagAccepted(arg)
  /\ fn' = "stringify"
  /\ outcome' = [status |-> "returned", value |-> stringify(TagAttrs(arg))]
  /\ UNCHANGED <<kLastIndex, jsxLastIndex, arg, ps>>

NextProps == ApplyParseProps \/ ApplyStringify

SpecProps == InitProps /\ [][NextProps]_vars

(***************************************************************************)
(* parseJSX followed one iteration of its loop at a time, in a fresh       *)
(* process.  ps holds str, the lastIndex of the two patterns and the       *)
(* number of replacements done.                                            *)
(***************************************************************************)
InitJsx ==
  /\ kLastIndex = 0
  /\ jsxLastIndex = 0
  /\ fn = "parseJSX"
  /\ arg \in TransformInputs
  /\ ps = JsxStart(Source(arg), 0, 0)
  /\ outcome = NoOutcome

\* while ((match = JSX_STRING.exec(str)) !== null) { ... }: one evaluation of the
\* condition and, with a match, of the body; without one, return str
JsxIteration ==
  /\ ps.status = "running"
  /\ ps.rewrites < MaxRewrites
  /\ ps' = JsxStep(ps)
  /\ jsxLastIndex' = ps'.lastIndex
  /\ kLastIndex' = ps'.kLastIndex
  /\ outcome' = IF ps'.status = "running" THEN outcome ELSE JsxOutcome(ps')
  /\ UNCHANGED <<fn, arg>>

NextJsx == JsxIteration

SpecJsx == InitJsx /\ [][NextJsx]_vars

(***************************************************************************)
(* Properties.  What a property expects is computed from the segments as   *)
(* they were written, not from the text the program was given.             *)
(***************************************************************************)
IsBlank(src) == \A i \in 1..Len(src) : src[i] \in WhiteSpace

IsOneElement(a) == Len(a) = 1 /\ a[1].kind = "element"

\* The children as the nodes they make: neighbouring pieces of text are one text node.
RECURSIVE ChildGroups(_)
ChildGroups(children) ==
  IF Len(children) <= 1 THEN children
  ELSE LET rest == ChildGroups(Tail(children))
       IN IF children[1].kind = "text" /\ rest[1].kind = "text"
          THEN <<TextSeg(children[1].src \o rest[1].src)>> \o Tail(rest)
          ELSE <<children[1]>> \o rest

IsContent(child) == child.kind = "element" \/ ~IsBlank(child.src)

\* The translation of one child written alone.
AloneTranslation(child) ==
  IF child.kind = "text" THEN parseText(child.src) ELSE parseJSX(child.src, 0, 0).str

\* The translations of the children that are not blank text, in source order,
\* joined by commas.
ChildrenExpression(children) ==
  LET content == SelectSeq(ChildGroups(children), IsContent)
  IN Join([k \in 1..Len(content) |-> AloneTranslation(content[k])], <<",">>)

\* The tag expression the specification asks for.
SpecTagExpr(tag) == IF tag[1] \in Lower THEN <<"\"">> \o tag \o <<"\"">> ELSE tag

\* The attributes expression the specification asks for.
SpecAttrsExpr(attrs) ==
  <<"{">> \o Join([k \in 1..Len(attrs) |-> attrs[k].key \o <<":">> \o attrs[k].value], <<",">>)
    \o <<"}">>

\* C1: an element with several children, one of them an element that is closed
\* before a later sibling: parse and translate complete, and the children
\* expression lists every child's translation in source order.
C1Case(a) ==
  /\ IsOneElement(a)
  /\ \E i \in 1..(Len(a[1].children) - 1) :
        a[1].children[i].kind = "element" /\ ~a[1].children[i].selfClosed

C1_ChildrenListedInOrder ==
  (fn = "parseJSX" /\ C1Case(arg)) =>
    /\ outcome.status = "returned"
    /\ EndsWith(outcome.value,
                SpecAttrsExpr(arg[1].attrs) \o <<",">>
                  \o ChildrenExpression(arg[1].children) \o <<")">>)

\* C2: translating an element yields createElement(tagExpr,attrsExpr,childrenExpr)
\* with childrenExpr the bracketed, comma-joined list of the child translations,
\* "[]" when there is none.  (A qualifier before createElement is allowed.)
C2_BracketedChildrenList ==
  (fn = "parseJSX" /\ IsOneElement(arg) /\ outcome.status = "returned") =>
    EndsWith(outcome.value,
             <<"c", "r", "e", "a", "t", "e", "E", "l", "e", "m", "e", "n", "t", "(">> \o SpecTagExpr(arg[1].tag) \o <<",">>
               \o SpecAttrsExpr(arg[1].attrs) \o <<",", "[">>
               \o ChildrenExpression(arg[1].children) \o <<"]", ")">>)

\* C3: when parse processes a close tag whose name is not the name of the current
\* parent, it aborts with an error and pops no frame.
NextTag(p) == RegExpExec(kMarkupPattern, p.data, p.lastIndex)

ParentName(p) ==
  IF p.currentParent = NoRef THEN JSUndefined ELSE p.nodes[p.currentParent].tagName

C3_MismatchedCloseAborts ==
  [][(/\ ps.status = "running"
      /\ NextTag(ps).found
      /\ handleJSXTag(NextTag(ps).text).closed
      /\ handleJSXTag(NextTag(ps).text).tagName # ParentName(ps))
       => (ps'.status \in {"Error", "TypeError"} /\ ps'.stack = ps.stack)]_vars

\* C4: whatever calls came before, parseJSX(x) ends as it does in a fresh process.
C4_SameOutcomeAsFreshProcess ==
  fn = "parseJSX" => outcome = JsxOutcome(parseJSX(Source(arg), 0, 0))

\* C5: several well-formed spans separated by host text: the output is the input
\* with every span replaced by its expression, whatever the lengths.
C5Case(a) ==
  /\ Cardinality({k \in 1..Len(a) : a[k].kind = "element"}) >= 2
  /\ \A k \in 1..(Len(a) - 1) : a[k].kind = "text" \/ a[k + 1].kind = "text"
  /\ \A k \in 1..Len(a) :
        a[k].kind = "element" => parseJSX(a[k].src, 0, 0).status = "returned"

EverySpanReplaced(a) ==
  Flatten([k \in 1..Len(a) |->
             IF a[k].kind = "text" THEN a[k].src ELSE parseJSX(a[k].src, 0, 0).str])

C5_EverySpanReplaced ==
  (fn = "parseJSX" /\ C5Case(arg)) =>
    outcome = [status |-> "returned", value |-> EverySpanReplaced(arg)]

\* C6: text mixing literal text and markers: the fragments in source order joined
\* by commas, a marker as its identifier, a literal span between markers quoted
\* whole, the spaces at its inner ends included.
IsMarker(src) == Len(src) > 2 /\ src[1] = "{" /\ src[Len(src)] = "}"

Identifier(src) == SubSeq(src, 2, Len(src) - 1)

\* Collapsing the text and trimming its two ends changes nothing.
Normalised(a) ==
  /\ ~IsBlank(a[1].src) /\ ~IsBlank(a[Len(a)].src)
  /\ \A k \in 1..Len(a) : IsBlank(a[k].src) => a[k].src = <<" ">>
  /\ \A k \in 1..(Len(a) - 1) : ~(IsBlank(a[k].src) /\ IsBlank(a[k + 1].src))

\* Neighbouring pieces of literal text are one literal span.
RECURSIVE LiteralSpans(_)
LiteralSpans(a) ==
  IF Len(a) <= 1 THEN a
  ELSE LET rest == LiteralSpans(Tail(a))
       IN IF ~IsMarker(a[1].src) /\ ~IsMarker(rest[1].src)
          THEN <<TextSeg(a[1].src \o rest[1].src)>> \o Tail(rest)
          ELSE <<a[1]>> \o rest

SpecFragments(a) ==
  LET spans == LiteralSpans(a)
  IN Join([k \in 1..Len(spans) |->
             IF IsMarker(spans[k].src) THEN Identifier(spans[k].src) ELSE Quoted(spans[k].src)],
          <<",">>)

C6Case(a) ==
  /\ Normalised(a)
  /\ \A k \in 1..Len(a) : IsMarker(a[k].src) \/ ~Includes(a[k].src, <<"{">>)
  /\ \E k \in 1..Len(a) : IsMarker(a[k].src)
  /\ \E k \in 1..Len(a) : ~IsMarker(a[k].src)

C6_LiteralSpansKeepInnerSpaces ==
  (fn = "parseText" /\ C6Case(arg)) => outcome.value = SpecFragments(arg)

\* C7: a text node whose text is, but for white space around it, one marker
\* {identifier}: its translation is the bare identifier.
C7Case(a) ==
  /\ Cardinality({k \in 1..Len(a) : IsMarker(a[k].src)}) = 1
  /\ \A k \in 1..Len(a) : IsMarker(a[k].src) \/ IsBlank(a[k].src)

TheMarker(a) == a[CHOOSE k \in 1..Len(a) : IsMarker(a[k].src)].src

C7_LoneMarkerIsBareIdentifier ==
  (fn = "translate" /\ C7Case(arg)) =>
    outcome = [status |-> "returned", value |-> Identifier(TheMarker(arg))]

C7_Witness ==
  /\ fn = "translate"
  /\ C7Case(arg)
  /\ Len(arg) = 3 /\ arg[1].src = <<"\n">> /\ arg[3].src = <<" ">>
  /\ outcome.value = <<"n", "a", "m", "e">>

\* C8: a blank text node adds nothing to the parent's children expression, and
\* the other children keep their order.
C8Case(a) ==
  /\ IsOneElement(a)
  /\ \E k \in 1..Len(ChildGroups(a[1].children)) : ~IsContent(ChildGroups(a[1].children)[k])

C8_BlankTextContributesNothing ==
  (fn = "parseJSX" /\ C8Case(arg) /\ outcome.status = "returned") =>
    EndsWith(outcome.value,
             SpecAttrsExpr(arg[1].attrs) \o <<",">>
               \o ChildrenExpression(arg[1].children) \o <<")">>)

C8_Witness ==
  /\ fn = "parseJSX"
  /\ C8Case(arg)
  /\ Len(arg[1].children) = 3
  /\ arg[1].children[1].kind = "text" /\ ~IsBlank(arg[1].children[1].src)
  /\ arg[1].children[2].kind = "element"
  /\ arg[1].children[3].kind = "text" /\ IsBlank(arg[1].children[3].src)
  /\ outcome.status = "returned"
  /\ EndsWith(outcome.value, <<",", "{", "}", ",", Backtick, "h", "i", Backtick, ",", "M", "i", "n", "i", "R", "e", "a", "c", "t", ".", "c", "r", "e", "a", "t", "e", "E", "l", "e", "m", "e", "n", "t", "(", "B", ",", "{", "}", ",", ")", ")">>)

\* C9: the tag expression is the bare tag name when the name's first character
\* is an upper-case letter, whatever the case of the others, and the name in
\* double quotes when it is a lower-case letter.
C9_TagExpressionByFirstCharacter ==
  (fn = "parseJSX" /\ IsOneElement(arg) /\ outcome.status = "returned") =>
    StartsWith(outcome.value,
               CreateElementCall
                 \o (IF arg[1].tag[1] \in Upper THEN arg[1].tag
                     ELSE <<"\"">> \o arg[1].tag \o <<"\"">>)
                 \o <<",">>)

C9_Witness ==
  /\ fn = "parseJSX"
  /\ IsOneElement(arg)
  /\ arg[1].tag = <<"f", "O", "O">>
  /\ outcome.status = "returned"
  /\ StartsWith(outcome.value, CreateElementCall \o <<"\"", "f", "O", "O", "\"", ",">>)

\* C10: a text with no markup span comes back unchanged, whatever calls came
\* before.
C10Case(a) == \A k \in 1..Len(a) : a[k].kind = "text"

C10_TextWithoutSpanUnchanged ==
  (fn = "parseJSX" /\ C10Case(arg)) =>
    outcome = [status |-> "returned", value |-> Source(arg)]

C10_Witness ==
  /\ fn = "parseJSX"
  /\ C10Case(arg)
  /\ ~RegExpTest(JSX_STRING, Source(arg))
  /\ kLastIndex # 0
  /\ Len(Source(arg)) > kLastIndex
  /\ outcome = [status |-> "returned", value |-> Source(arg)]

\* C11: throughout parse the stack is not empty, Root is at its bottom and the
\* current parent is the element on top of it.
C11_CurrentParentIsStackTop ==
  (fn = "parse" /\ ps.status \in {"running", "returned"}) =>
    /\ ps.stack # <<>>
    /\ ps.stack[1] = Root
    /\ ps.currentParent = ps.stack[Len(ps.stack)]

\* C12: parse returns a tree only when every open tag of its input that is not
\* self-closing was closed.
IsOpenTag(src) == src[1] = "<" /\ src[2] # "/" /\ src[Len(src) - 1] # "/"

IsCloseTag(src) == src[1] = "<" /\ src[2] = "/"

C12_TreeOnlyWhenAllClosed ==
  (fn = "parse" /\ ps.status = "returned") =>
    Cardinality({k \in 1..Len(arg) : IsOpenTag(arg[k].src)})
      = Cardinality({k \in 1..Len(arg) : IsCloseTag(arg[k].src)})

\* C18: in every tree parse builds, the element of a self-closing tag has no
\* children, is not the current parent and is not on the stack: what comes after
\* it is appended to the parent it was appended to (or to an element opened later).
IsSelfClosingNode(node) == node.type = "HTMLElement" /\ node.tagName = <<"B">>

C18_SelfClosingHasNoChildren ==
  fn = "parse" =>
    \A n \in 1..Len(ps.nodes) :
      IsSelfClosingNode(ps.nodes[n]) =>
        /\ ps.nodes[n].childNodes = <<>>
        /\ ps.currentParent # n
        /\ \A k \in 1..Len(ps.stack) : ps.stack[k] # n
        /\ \A m \in 1..Len(ps.nodes) : ps.nodes[m].parentNode # n

C18_Witness ==
  /\ fn = "parse"
  /\ ps.status = "returned"
  /\ \E n \in 1..Len(ps.nodes) :
       /\ IsSelfClosingNode(ps.nodes[n])
       /\ ps.nodes[n].childNodes = <<>>
       /\ \E m \in (n + 1)..Len(ps.nodes) :
            /\ ps.nodes[m].type = "TextNode"
            /\ ps.nodes[m].parentNode = ps.nodes[n].parentNode
       /\ \E m \in (n + 1)..Len(ps.nodes) :
            /\ ps.nodes[m].type = "HTMLElement"
            /\ ps.nodes[m].parentNode = ps.nodes[n].parentNode

\* C13: for attributes key={expr}, expr with spaces and balanced nested braces,
\* and key="text" or key='text', parseProps stores under each key exactly the
\* text between the outermost braces, or the text with its quotes, and nothing
\* under any other key.
C13Case(a) ==
  /\ a # <<>>
  /\ \A k \in 1..Len(a) : a[k].form \in {"brace", "quote"}
  /\ \A j, k \in 1..Len(a) : a[j].key = a[k].key => j = k

Pairs(obj) == {obj[i] : i \in 1..Len(obj)}

C13_StoresExprBetweenOuterBraces ==
  (fn = "parseProps" /\ C13Case(arg)) =>
    /\ Len(outcome.value) = Len(arg)
    /\ Pairs(outcome.value) = {[key |-> arg[k].key, value |-> arg[k].expr] : k \in 1..Len(arg)}

\* C14: a valueless attribute followed by key=value pairs is dropped: the mapping
\* holds exactly the following pairs, each under its own key, and no key contains
\* the name of the valueless attribute.
IsPlainPair(p) ==
  p.form = "quote" \/ (p.form = "brace" /\ ~Includes(p.expr, <<"{">>))

C14Case(a) ==
  /\ Len(a) >= 2
  /\ a[1].form = "bare"
  /\ \A k \in 2..Len(a) : IsPlainPair(a[k])
  /\ \A j, k \in 1..Len(a) : a[j].key = a[k].key => j = k

C14_ValuelessAttributeDropped ==
  (fn = "parseProps" /\ C14Case(arg)) =>
    /\ Pairs(outcome.value) = {[key |-> arg[k].key, value |-> arg[k].expr] : k \in 2..Len(arg)}
    /\ \A i \in 1..Len(outcome.value) : ~Includes(outcome.value[i].key, arg[1].key)

\* C19: the attributes expression is "{" + key:value of each stored key, in the
\* order the keys were first stored, the value the last one stored, joined by
\* commas + "}"; "{}" for no attribute.
C19Case(a) == \A k \in 1..Len(a) : IsPlainPair(a[k])

FirstStored(a) == SelectSeq([k \in 1..Len(a) |-> k], LAMBDA k : \A j \in 1..(k - 1) : a[j].key # a[k].key)

LastStored(a, key) == a[CHOOSE k \in 1..Len(a) : a[k].key = key /\ \A j \in (k + 1)..Len(a) : a[j].key # key].expr

C19_AttributesInStoredOrder ==
  (fn = "stringify" /\ C19Case(arg)) =>
    outcome.value =
      <<"{">>
        \o Join([i \in 1..Len(FirstStored(arg)) |->
                   arg[FirstStored(arg)[i]].key \o <<":">>
                     \o LastStored(arg, arg[FirstStored(arg)[i]].key)],
                <<",">>)
        \o <<"}">>

\* C15: for a text that is not exactly one marker, every part that is not a
\* marker is inside backtick-quoted fragments: what the result has outside the
\* backticks, the joining commas apart, is the identifiers of the markers in order.
\* The index of the k-th character kept.
KeptAt(keep, k) == CHOOSE i \in keep : Cardinality({j \in keep : j <= i}) = k

Kept(s, keep) == [k \in 1..Cardinality(keep) |-> s[KeptAt(keep, k)]]

OutsideBackticks(s) ==
  Kept(s, {i \in 1..Len(s) :
             /\ s[i] # Backtick
             /\ s[i] # ","
             /\ Cardinality({j \in 1..i : s[j] = Backtick}) % 2 = 0})

MarkerIdentifiers(a) ==
  Flatten([k \in 1..Len(a) |-> IF IsMarker(a[k].src) THEN Identifier(a[k].src) ELSE <<>>])

C15_NonMarkerTextOnlyInsideBackticks ==
  (fn = "parseText" /\ ~C7Case(arg)) =>
    OutsideBackticks(outcome.value) = MarkerIdentifiers(arg)

\* C16: for an input with one well-formed markup span, the text returned is the
\* text before the span, then the string translate produced for the span,
\* character for character, then the text after the span.
TheSpan(a) == CHOOSE k \in 1..Len(a) : a[k].kind = "element"

SpanTranslation(root) == translate(root.nodes, FirstChild(root))

C16Case(a) ==
  /\ Cardinality({k \in 1..Len(a) : a[k].kind = "element"}) = 1
  /\ parse(a[TheSpan(a)].src, 0).status = "returned"
  /\ SpanTranslation(parse(a[TheSpan(a)].src, 0)).status = "returned"

C16_SpanReplacedByTranslation ==
  (fn = "parseJSX" /\ C16Case(arg) /\ outcome.status = "returned") =>
    outcome.value =
      Source(SubSeq(arg, 1, TheSpan(arg) - 1))
        \o SpanTranslation(parse(arg[TheSpan(arg)].src, 0)).value
        \o Source(SubSeq(arg, TheSpan(arg) + 1, Len(arg)))

\* C17: the span loop of parseJSX ends: every replacement leaves fewer spans in
\* the text than there were before it, so that the loop makes no more
\* replacements than the input has spans.
\* The number of spans JSX_STRING.exec finds one after the other from lastIndex on.
RECURSIVE SpansFrom(_, _)
SpansAfter(str, match) == IF match.found THEN 1 + SpansFrom(str, match.lastIndex) ELSE 0

SpansFrom(str, lastIndex) == SpansAfter(str, RegExpExec(JSX_STRING, str, lastIndex))

C17_EveryReplacementLeavesFewerSpans ==
  [][(fn = "parseJSX" /\ ps.status = "running" /\ ps'.rewrites > ps.rewrites)
       => SpansFrom(ps'.str, 0) < SpansFrom(ps.str, 0)]_vars

====
